---- MODULE Spec2Model ----
(***************************************************************************)
(* DChat contact registry (src/src/contact.c): the contact list of the     *)
(* global configuration _cnf, its resizing, lookup, duplicate detection    *)
(* and the exchange of contacts in "control/discover" PDUs.                 *)
(*                                                                         *)
(* C strings are sequences of character codes, C arrays are functions on   *)
(* 0 .. size-1, and every C function f is an operator f(c, args) from the   *)
(* configuration c (the value of *_cnf) to a record [cnf, ret, ...] with    *)
(* the configuration it leaves behind and the value it returns.            *)
(***************************************************************************)
EXTENDS Integers, Sequences, FiniteSets, TLC

VARIABLES
    cnf,    \* *_cnf of this client: [me, cl: [contact, cl_size, used_contacts]]
    call,   \* the last call made: [op, arg, arg2, ret, closed, resized, rep]
    scen,   \* observer: where the run is in "add from empty, then only delete";
            \* under SpecOwn, the descriptors connected and closed so far
    peer,   \* *_cnf of the remote client of the two-client system
    rc      \* the activation of receive_contacts: its locals, and what it did

vars == <<cnf, call, scen, peer, rc>>

(***************************************************************************)
(* Bounds of the model.                                                    *)
(***************************************************************************)
\* INIT_CONTACTS (dchat_h/types.h, not among the sources): the increment by
\* which the contact list grows and shrinks, and its initial size.
INIT_CONTACTS == 2
\* ONION_ADDRLEN (dchat_h/types.h, not among the sources): length of an onion id.
ONION_ADDRLEN == 2
\* Lines of a received "control/discover" PDU.
MaxLines == 2

\* descriptors 1 .. MaxFd: one connection more than fills the initial list
MaxFd == INIT_CONTACTS + 1
\* the sizes realloc_contactlist is asked for: -1 .. MaxSize
MaxSize == INIT_CONTACTS + 2

(***************************************************************************)
(* Characters and strings.                                                 *)
(***************************************************************************)
SP == 32          \* ' '
NL == 10          \* '\n'
CH_0 == 48        \* '0'
CH_a == 97        \* 'a'
CH_b == 98        \* 'b'
\* The NULL pointer, where a char* is expected: no C string holds a 0.
NULL == <<0>>
\* The result of an evaluation whose behaviour C leaves undefined.
UB == -99
\* The process was killed by the undefined evaluation (SIGSEGV).
CRASH == -100

Min(a, b) == IF a < b THEN a ELSE b

\* strcmp(a, b): the sign of the first difference, the end of a string being 0
RECURSIVE strcmp_from(_, _, _)
strcmp_from(a, b, i) ==
    LET ca == IF i <= Len(a) THEN a[i] ELSE 0
        cb == IF i <= Len(b) THEN b[i] ELSE 0
    IN  IF ca < cb THEN -1
        ELSE IF ca > cb THEN 1
        ELSE IF ca = 0 THEN 0
        ELSE strcmp_from(a, b, i + 1)

strcmp(a, b) == strcmp_from(a, b, 1)

\* snprintf(port_str, MAX_INT_STR, "%u", lport): the decimal digits of lport
RECURSIVE utoa(_)
utoa(n) ==
    IF n < 10 THEN <<CH_0 + n>>
    ELSE Append(utoa(n \div 10), CH_0 + (n % 10))

is_valid_onion(onion_id) ==
    /\ Len(onion_id) = ONION_ADDRLEN
    /\ \A i \in 1..Len(onion_id) : onion_id[i] \in {CH_a, CH_b}

is_valid_port(lport) == lport >= 1 /\ lport <= 65535

(***************************************************************************)
(* contact_t and the contact list.                                         *)
(***************************************************************************)
\* memset(&contact, 0, sizeof(contact_t))
ZeroContact == [fd |-> 0, onion_id |-> <<>>, lport |-> 0, accepted |-> FALSE]

Slots(c) == 0 .. (c.cl.cl_size - 1)

\* the slots that hold a connection
Occupied(c) == {i \in Slots(c) : c.cl.contact[i].fd # 0}

\* the occupied slots' contents in ascending slot order
RECURSIVE OccupiedFrom(_, _)
OccupiedFrom(c, i) ==
    IF i >= c.cl.cl_size THEN <<>>
    ELSE IF c.cl.contact[i].fd # 0
         THEN <<c.cl.contact[i]>> \o OccupiedFrom(c, i + 1)
         ELSE OccupiedFrom(c, i + 1)

contact_to_string(contact) ==
    IF ~is_valid_onion(contact.onion_id) THEN NULL
    ELSE IF ~is_valid_port(contact.lport) THEN NULL
    ELSE LET digits == utoa(contact.lport)
             port_str == SubSeq(digits, 1, Min(Len(digits), 5))
         IN  contact.onion_id \o <<SP>> \o port_str \o <<NL>>

\* strcmp(contact_to_string(contact), contact_to_string(c)) of find_contact:
\* the sign of the comparison, or UB when either conversion returned NULL
contact_strcmp(contact, c) ==
    LET s1 == contact_to_string(contact)
        s2 == contact_to_string(c)
    IN  IF s1 = NULL \/ s2 = NULL THEN UB
        ELSE strcmp(s1, s2)

\* the passes of find_contact's loop over the contact list, from index i
RECURSIVE find_from(_, _, _)
find_from(c, contact, i) ==
    IF i >= c.cl.cl_size THEN -2
    ELSE LET e == c.cl.contact[i]
         IN  IF e.lport # 0
             THEN LET r == contact_strcmp(contact, e)
                  IN  IF r = UB THEN UB
                      ELSE IF r = 0 THEN i
                      ELSE find_from(c, contact, i + 1)
             ELSE find_from(c, contact, i + 1)

\* find_contact without the comparison with _cnf->me
find_contact_no_self(c, contact, begin) ==
    IF begin < 0 \/ begin >= c.cl.cl_size THEN -2
    ELSE find_from(c, contact, begin)

\* find_contact that searches the contact list from its first slot
find_contact_from_zero(c, contact, begin) ==
    IF begin < 0 \/ begin >= c.cl.cl_size THEN -2
    ELSE IF c.me.lport # 0
         THEN LET r == contact_strcmp(contact, c.me)
              IN  IF r = UB THEN UB
                  ELSE IF r = 0 THEN begin - 1
                  ELSE find_from(c, contact, 0)
         ELSE find_from(c, contact, 0)

\* find_contact that searches the contact list first and compares with
\* _cnf->me only when the list does not hold the contact
find_contact_list_first(c, contact, begin) ==
    IF begin < 0 \/ begin >= c.cl.cl_size THEN -2
    ELSE LET f == find_from(c, contact, begin)
         IN  IF f # -2 THEN f
             ELSE IF c.me.lport # 0
             THEN LET r == contact_strcmp(contact, c.me)
                  IN  IF r = UB THEN UB
                      ELSE IF r = 0 THEN begin - 1
                      ELSE -2
             ELSE -2

\* find_contact(contact, begin): the first pass of the loop compares with
\* _cnf->me after i has been set to begin - 1, and returns i on a match
find_contact(c, contact, begin) ==
    IF begin < 0 \/ begin >= c.cl.cl_size THEN -2
    ELSE IF c.me.lport # 0
         THEN LET r == contact_strcmp(contact, c.me)
              IN  IF r = UB THEN UB
                  ELSE IF r = 0 THEN begin - 1
                  ELSE find_from(c, contact, begin)
         ELSE find_from(c, contact, begin)

\* check_duplicates that takes the first occurrence for the accepted
\* connection without reading its accepted flag
check_duplicates_by_position(c, n) ==
    LET fst_oc == find_contact(c, c.cl.contact[n], 0)
    IN  IF fst_oc = UB THEN UB
        ELSE IF fst_oc = -1 THEN n
        ELSE IF fst_oc = -2 THEN -1
        ELSE LET sec_oc == find_contact(c, c.cl.contact[n], fst_oc + 1)
             IN  IF sec_oc = UB THEN UB
                 ELSE IF sec_oc = -2 THEN -1
                 ELSE LET r == strcmp(c.me.onion_id, c.cl.contact[n].onion_id)
                      IN  IF r > 0 THEN sec_oc
                          ELSE IF r < 0 THEN fst_oc
                          ELSE IF c.me.lport > c.cl.contact[n].lport THEN sec_oc
                          ELSE fst_oc

\* check_duplicates that does not compare the listening ports when the
\* onion ids are equal
check_duplicates_no_port(c, n) ==
    LET fst_oc == find_contact(c, c.cl.contact[n], 0)
    IN  IF fst_oc = UB THEN UB
        ELSE IF fst_oc = -1 THEN n
        ELSE IF fst_oc = -2 THEN -1
        ELSE LET sec_oc == find_contact(c, c.cl.contact[n], fst_oc + 1)
             IN  IF sec_oc = UB THEN UB
                 ELSE IF sec_oc = -2 THEN -1
                 ELSE LET temp == c.cl.contact[fst_oc]
                          accept_contact == IF temp.accepted THEN fst_oc ELSE sec_oc
                          connect_contact == IF temp.accepted THEN sec_oc ELSE fst_oc
                          r == strcmp(c.me.onion_id, c.cl.contact[n].onion_id)
                      IN  IF r > 0 THEN connect_contact
                          ELSE accept_contact

\* check_duplicates with the directions of the comparisons exchanged
check_duplicates_reversed(c, n) ==
    LET fst_oc == find_contact(c, c.cl.contact[n], 0)
    IN  IF fst_oc = UB THEN UB
        ELSE IF fst_oc = -1 THEN n
        ELSE IF fst_oc = -2 THEN -1
        ELSE LET sec_oc == find_contact(c, c.cl.contact[n], fst_oc + 1)
             IN  IF sec_oc = UB THEN UB
                 ELSE IF sec_oc = -2 THEN -1
                 ELSE LET temp == c.cl.contact[fst_oc]
                          accept_contact == IF temp.accepted THEN fst_oc ELSE sec_oc
                          connect_contact == IF temp.accepted THEN sec_oc ELSE fst_oc
                          r == strcmp(c.me.onion_id, c.cl.contact[n].onion_id)
                      IN  IF r > 0 THEN accept_contact
                          ELSE IF r < 0 THEN connect_contact
                          ELSE IF c.me.lport > c.cl.contact[n].lport THEN accept_contact
                          ELSE IF c.me.lport < c.cl.contact[n].lport THEN connect_contact
                          ELSE accept_contact

\* check_duplicates that reports no duplicate for a contact that is this client
check_duplicates_self_none(c, n) ==
    LET fst_oc == find_contact(c, c.cl.contact[n], 0)
    IN  IF fst_oc = UB THEN UB
        ELSE IF fst_oc = -1 \/ fst_oc = -2 THEN -1
        ELSE LET sec_oc == find_contact(c, c.cl.contact[n], fst_oc + 1)
             IN  IF sec_oc = UB THEN UB
                 ELSE IF sec_oc = -2 THEN -1
                 ELSE LET temp == c.cl.contact[fst_oc]
                          accept_contact == IF temp.accepted THEN fst_oc ELSE sec_oc
                          connect_contact == IF temp.accepted THEN sec_oc ELSE fst_oc
                          r == strcmp(c.me.onion_id, c.cl.contact[n].onion_id)
                      IN  IF r > 0 THEN connect_contact
                          ELSE IF r < 0 THEN accept_contact
                          ELSE IF c.me.lport > c.cl.contact[n].lport THEN connect_contact
                          ELSE accept_contact

\* check_duplicates(n)
check_duplicates(c, n) ==
    LET fst_oc == find_contact(c, c.cl.contact[n], 0)
    IN  IF fst_oc = UB THEN UB
        ELSE IF fst_oc = -1 THEN n
        ELSE IF fst_oc = -2 THEN -1
        ELSE LET sec_oc == find_contact(c, c.cl.contact[n], fst_oc + 1)
             IN  IF sec_oc = UB THEN UB
                 ELSE IF sec_oc = -2 THEN -1
                 ELSE LET temp == c.cl.contact[fst_oc]
                          accept_contact == IF temp.accepted THEN fst_oc ELSE sec_oc
                          connect_contact == IF temp.accepted THEN sec_oc ELSE fst_oc
                          r == strcmp(c.me.onion_id, c.cl.contact[n].onion_id)
                      IN  IF r > 0 THEN connect_contact
                          ELSE IF r < 0 THEN accept_contact
                          ELSE IF c.me.lport > c.cl.contact[n].lport THEN connect_contact
                          ELSE IF c.me.lport < c.cl.contact[n].lport THEN accept_contact
                          ELSE accept_contact

\* the return statement of check_duplicates(n) that is reached: its line in
\* contact.c (218, 223, 231, 256, 261, 266, 270, or 274 for the final else)
check_duplicates_return(c, n) ==
    LET fst_oc == find_contact(c, c.cl.contact[n], 0)
    IN  IF fst_oc = UB THEN UB
        ELSE IF fst_oc = -1 THEN 218
        ELSE IF fst_oc = -2 THEN 223
        ELSE LET sec_oc == find_contact(c, c.cl.contact[n], fst_oc + 1)
             IN  IF sec_oc = UB THEN UB
                 ELSE IF sec_oc = -2 THEN 231
                 ELSE LET r == strcmp(c.me.onion_id, c.cl.contact[n].onion_id)
                      IN  IF r > 0 THEN 256
                          ELSE IF r < 0 THEN 261
                          ELSE IF c.me.lport > c.cl.contact[n].lport THEN 266
                          ELSE IF c.me.lport < c.cl.contact[n].lport THEN 270
                          ELSE 274

(***************************************************************************)
(* Resizing, adding, deleting.                                             *)
(***************************************************************************)
\* realloc_contactlist without the test newsize < 1
realloc_any_size(c, newsize) ==
    IF newsize < c.cl.used_contacts
    THEN [cnf |-> c, ret |-> -1]
    ELSE LET old == OccupiedFrom(c, 0)
         IN  [cnf |-> [c EXCEPT !.cl.cl_size = newsize,
                                !.cl.contact =
                                    [j \in 0 .. (newsize - 1) |->
                                        IF j < Len(old) THEN old[j + 1]
                                        ELSE ZeroContact]],
              ret |-> 0]

\* realloc_contactlist that, asked for fewer slots than are in use, keeps the
\* contacts that fit instead of refusing
realloc_truncating(c, newsize) ==
    IF newsize < 1
    THEN [cnf |-> c, ret |-> -1]
    ELSE LET old == OccupiedFrom(c, 0)
         IN  [cnf |-> [c EXCEPT !.cl.cl_size = newsize,
                                !.cl.used_contacts = Min(@, newsize),
                                !.cl.contact =
                                    [j \in 0 .. (newsize - 1) |->
                                        IF j < Len(old) THEN old[j + 1]
                                        ELSE ZeroContact]],
              ret |-> 0]

\* realloc_contactlist that copies slot i to slot i (no write cursor j)
realloc_same_index(c, newsize) ==
    IF newsize < 1 \/ newsize < c.cl.used_contacts
    THEN [cnf |-> c, ret |-> -1]
    ELSE [cnf |-> [c EXCEPT !.cl.cl_size = newsize,
                            !.cl.contact =
                                [j \in 0 .. (newsize - 1) |->
                                    IF j < c.cl.cl_size THEN c.cl.contact[j]
                                    ELSE ZeroContact]],
          ret |-> 0]

\* realloc_contactlist that copies the contacts in descending slot order
realloc_reversing(c, newsize) ==
    IF newsize < 1 \/ newsize < c.cl.used_contacts
    THEN [cnf |-> c, ret |-> -1]
    ELSE LET old == OccupiedFrom(c, 0)
         IN  IF Len(old) > newsize
             THEN [cnf |-> c, ret |-> UB]
             ELSE [cnf |-> [c EXCEPT !.cl.cl_size = newsize,
                                     !.cl.contact =
                                         [j \in 0 .. (newsize - 1) |->
                                             IF j < Len(old) THEN old[Len(old) - j]
                                             ELSE ZeroContact]],
                   ret |-> 0]

\* realloc_contactlist(newsize). When more slots are occupied than newsize
\* holds, the memcpy writes behind the new list: UB.
realloc_contactlist(c, newsize) ==
    IF newsize < 1 \/ newsize < c.cl.used_contacts
    THEN [cnf |-> c, ret |-> -1]
    ELSE LET old == OccupiedFrom(c, 0)
         IN  IF Len(old) > newsize
             THEN [cnf |-> c, ret |-> UB]
             ELSE [cnf |-> [c EXCEPT !.cl.cl_size = newsize,
                                     !.cl.contact =
                                         [j \in 0 .. (newsize - 1) |->
                                             IF j < Len(old) THEN old[j + 1]
                                             ELSE ZeroContact]],
                   ret |-> 0]

\* the first empty slot at or after i, cl_size when there is none
RECURSIVE first_empty(_, _)
first_empty(c, i) ==
    IF i >= c.cl.cl_size THEN i
    ELSE IF c.cl.contact[i].fd = 0 THEN i
    ELSE first_empty(c, i + 1)

\* add_contact that grows the list one contact early
add_contact_eager(c, fd) ==
    LET grown == IF c.cl.used_contacts + 1 >= c.cl.cl_size
                 THEN realloc_contactlist(c, c.cl.cl_size + INIT_CONTACTS)
                 ELSE [cnf |-> c, ret |-> 0]
    IN  IF grown.ret < 0
        THEN [cnf |-> grown.cnf, ret |-> IF grown.ret = UB THEN UB ELSE -1]
        ELSE LET d == grown.cnf
                 i == first_empty(d, 0)
             IN  IF i < d.cl.cl_size
                 THEN [cnf |-> [d EXCEPT !.cl.contact[i].fd = fd,
                                         !.cl.used_contacts = @ + 1],
                       ret |-> i]
                 ELSE [cnf |-> d, ret |-> i]

\* add_contact that moves the contacts to the front of the list first
add_contact_compacting(c, fd) ==
    LET grown == IF c.cl.used_contacts = c.cl.cl_size
                 THEN realloc_contactlist(c, c.cl.cl_size + INIT_CONTACTS)
                 ELSE realloc_contactlist(c, c.cl.cl_size)
    IN  IF grown.ret < 0
        THEN [cnf |-> grown.cnf, ret |-> IF grown.ret = UB THEN UB ELSE -1]
        ELSE LET d == grown.cnf
                 i == first_empty(d, 0)
             IN  IF i < d.cl.cl_size
                 THEN [cnf |-> [d EXCEPT !.cl.contact[i].fd = fd,
                                         !.cl.used_contacts = @ + 1],
                       ret |-> i]
                 ELSE [cnf |-> d, ret |-> i]

\* add_contact(fd)
add_contact(c, fd) ==
    LET grown == IF c.cl.used_contacts = c.cl.cl_size
                 THEN realloc_contactlist(c, c.cl.cl_size + INIT_CONTACTS)
                 ELSE [cnf |-> c, ret |-> 0]
    IN  IF grown.ret < 0
        THEN [cnf |-> grown.cnf, ret |-> IF grown.ret = UB THEN UB ELSE -1]
        ELSE LET d == grown.cnf
                 i == first_empty(d, 0)
             IN  IF i < d.cl.cl_size
                 THEN [cnf |-> [d EXCEPT !.cl.contact[i].fd = fd,
                                         !.cl.used_contacts = @ + 1],
                       ret |-> i]
                 ELSE [cnf |-> d, ret |-> i]

\* the tail of del_contact: the shrinking once the slot is cleared
del_shrink(d, fds) ==
    IF d.cl.used_contacts = d.cl.cl_size - INIT_CONTACTS
       /\ d.cl.used_contacts # 0
    THEN LET shrunk == realloc_contactlist(d, d.cl.cl_size - INIT_CONTACTS)
         IN  IF shrunk.ret < 0
             THEN [cnf |-> shrunk.cnf,
                   ret |-> IF shrunk.ret = UB THEN UB ELSE -1,
                   closed |-> fds]
             ELSE [cnf |-> shrunk.cnf, ret |-> 0, closed |-> fds]
    ELSE [cnf |-> d, ret |-> 0, closed |-> fds]

\* del_contact that does not decrement used_contacts
del_contact_no_decrement(c, n) ==
    IF n < 0 \/ n >= c.cl.cl_size
    THEN [cnf |-> c, ret |-> -1, closed |-> <<>>]
    ELSE IF c.cl.contact[n].fd = 0
    THEN [cnf |-> c, ret |-> 0, closed |-> <<>>]
    ELSE del_shrink([c EXCEPT !.cl.contact[n] = ZeroContact],
                    <<c.cl.contact[n].fd>>)

\* del_contact without the early return on an empty slot
del_contact_empty_too(c, n) ==
    IF n < 0 \/ n >= c.cl.cl_size
    THEN [cnf |-> c, ret |-> -1, closed |-> <<>>]
    ELSE del_shrink([c EXCEPT !.cl.contact[n] = ZeroContact,
                              !.cl.used_contacts = @ - 1],
                    IF c.cl.contact[n].fd = 0 THEN <<>> ELSE <<c.cl.contact[n].fd>>)

\* del_contact that closes the descriptor and leaves it in the slot
del_contact_no_clear(c, n) ==
    IF n < 0 \/ n >= c.cl.cl_size
    THEN [cnf |-> c, ret |-> -1, closed |-> <<>>]
    ELSE IF c.cl.contact[n].fd = 0
    THEN [cnf |-> c, ret |-> 0, closed |-> <<>>]
    ELSE [cnf |-> c, ret |-> 0, closed |-> <<c.cl.contact[n].fd>>]

\* del_contact that never makes the list smaller
del_contact_no_shrink(c, n) ==
    IF n < 0 \/ n >= c.cl.cl_size
    THEN [cnf |-> c, ret |-> -1, closed |-> <<>>]
    ELSE IF c.cl.contact[n].fd = 0
    THEN [cnf |-> c, ret |-> 0, closed |-> <<>>]
    ELSE [cnf |-> [c EXCEPT !.cl.contact[n] = ZeroContact,
                            !.cl.used_contacts = @ - 1],
          ret |-> 0, closed |-> <<c.cl.contact[n].fd>>]

\* del_contact(n); closed lists the descriptors handed to close()
del_contact(c, n) ==
    IF n < 0 \/ n >= c.cl.cl_size
    THEN [cnf |-> c, ret |-> -1, closed |-> <<>>]
    ELSE IF c.cl.contact[n].fd = 0
    THEN [cnf |-> c, ret |-> 0, closed |-> <<>>]
    ELSE del_shrink([c EXCEPT !.cl.contact[n] = ZeroContact,
                              !.cl.used_contacts = @ - 1],
                    <<c.cl.contact[n].fd>>)

(***************************************************************************)
(* The clients and connections of the model.                               *)
(***************************************************************************)
\* an onion id of ONION_ADDRLEN characters: first, 'a' ..., last
Onion(first, last) ==
    [i \in 1 .. ONION_ADDRLEN |->
        IF i = 1 THEN first ELSE IF i = ONION_ADDRLEN THEN last ELSE CH_a]

Identity(onion_id, lport) ==
    [fd |-> 0, onion_id |-> onion_id, lport |-> lport, accepted |-> FALSE]

RemoteX == Identity(Onion(CH_a, CH_b), 10)
RemoteY == Identity(Onion(CH_b, CH_a), 10)

\* _cnf->me: below RemoteX by onion id, by port, equal to it, above it by
\* port, above it by onion id
Mes == {Identity(Onion(CH_a, CH_a), 10), Identity(Onion(CH_a, CH_b), 9),
        RemoteX, Identity(Onion(CH_a, CH_b), 11), RemoteY}

\* The connection a descriptor stands for: descriptors 1 and 2 are the dialed
\* and the accepted connection with RemoteX, the others those with RemoteY.
Link(fd) ==
    [remote |-> IF fd <= 2 THEN RemoteX ELSE RemoteY, accepted |-> fd % 2 = 0]

Fds == 1 .. MaxFd

Held(c) == {c.cl.contact[i].fd : i \in Occupied(c)}

\* the contact list after init: INIT_CONTACTS zeroed slots
EmptyList ==
    [contact |-> [i \in 0 .. (INIT_CONTACTS - 1) |-> ZeroContact],
     cl_size |-> INIT_CONTACTS, used_contacts |-> 0]

\* the handler of a "control/discover" PDU received on slot n stores the
\* sender's onion id and listening port in the slot; accepted was set when
\* the connection was accepted
confirm_contact(c, n) ==
    LET l == Link(c.cl.contact[n].fd)
    IN  [c EXCEPT !.cl.contact[n].onion_id = l.remote.onion_id,
                  !.cl.contact[n].lport = l.remote.lport,
                  !.cl.contact[n].accepted = l.accepted]

(***************************************************************************)
(* The observer of "add from empty, then only delete".                     *)
(***************************************************************************)
ScenOff == [phase |-> "off", grows |-> 0, shrinks |-> 0]

scen_add(sc, c, d) ==
    IF sc.phase = "add" /\ c.cl.used_contacts <= INIT_CONTACTS
    THEN [sc EXCEPT !.grows = IF d.cl.cl_size > c.cl.cl_size THEN @ + 1 ELSE @]
    ELSE ScenOff

scen_del(sc, c, d) ==
    IF \/ sc.phase = "del"
       \/ sc.phase = "add" /\ c.cl.used_contacts = INIT_CONTACTS + 1
    THEN [sc EXCEPT !.phase = "del",
                    !.shrinks = IF d.cl.cl_size < c.cl.cl_size THEN @ + 1 ELSE @]
    ELSE ScenOff

(***************************************************************************)
(* The calls.                                                              *)
(***************************************************************************)
\* The record of a call that took the configuration from c to d: resized is
\* the direction in which the list's size changed, rep whether the call is a
\* del_contact of the slot that the call before it, a del_contact too, cleared.
Call(op, arg, arg2, ret, closed, c, d) ==
    [op |-> op, arg |-> arg, arg2 |-> arg2, ret |-> ret, closed |-> closed,
     resized |-> IF d.cl.cl_size > c.cl.cl_size THEN 1
                 ELSE IF d.cl.cl_size < c.cl.cl_size THEN -1 ELSE 0,
     rep |-> /\ op = "del_contact"
             /\ call.op = "del_contact"
             /\ call.arg = arg
             /\ call.closed # <<>>]

NoCall ==
    [op |-> "init", arg |-> 0, arg2 |-> 0, ret |-> 0, closed |-> <<>>,
     resized |-> 0, rep |-> FALSE]

Alive == call.ret # CRASH

\* what a call whose evaluation was undefined may return, or the crash
Outcomes(c, r) == IF r = UB THEN {CRASH} \cup (-2 .. (c.cl.cl_size - 1)) ELSE {r}

NoPeer == [me |-> ZeroContact, cl |-> EmptyList]
RcIdle == [pc |-> "idle"]

Init ==
    /\ cnf = [me |-> Identity(Onion(CH_a, CH_a), 10), cl |-> EmptyList]
    /\ call = NoCall
    /\ scen = [phase |-> "add", grows |-> 0, shrinks |-> 0]
    /\ peer = NoPeer
    /\ rc = RcIdle

AddContact ==
    /\ Alive
    /\ \E fd \in Fds \ Held(cnf) :
        \E r \in {add_contact(cnf, fd)} :
            /\ cnf' = r.cnf
            /\ call' = Call("add_contact", fd, 0, r.ret, <<>>, cnf, r.cnf)
            /\ scen' = scen_add(scen, cnf, r.cnf)
    /\ UNCHANGED <<peer, rc>>

DelContact ==
    /\ Alive
    /\ \E n \in -1 .. cnf.cl.cl_size :
        \E r \in {del_contact(cnf, n)} :
            /\ cnf' = r.cnf
            /\ call' = Call("del_contact", n, 0, r.ret, r.closed, cnf, r.cnf)
            /\ scen' = scen_del(scen, cnf, r.cnf)
    /\ UNCHANGED <<peer, rc>>

Realloc ==
    /\ Alive
    /\ \E newsize \in -1 .. MaxSize :
        \E r \in {realloc_contactlist(cnf, newsize)} :
            /\ cnf' = r.cnf
            /\ call' = Call("realloc_contactlist", newsize, 0, r.ret, <<>>, cnf, r.cnf)
            /\ scen' = ScenOff
    /\ UNCHANGED <<peer, rc>>

Confirm ==
    /\ Alive
    /\ \E n \in Occupied(cnf) :
        /\ cnf.cl.contact[n].lport = 0
        /\ cnf' = confirm_contact(cnf, n)
        /\ call' = Call("confirm", n, 0, 0, <<>>, cnf, cnf)
    /\ UNCHANGED <<scen, peer, rc>>

FindContact ==
    /\ Alive
    /\ \E contact \in {cnf.me, RemoteX}, begin \in -1 .. cnf.cl.cl_size :
        \E ret \in Outcomes(cnf, find_contact(cnf, contact, begin)) :
            call' = Call("find_contact", contact, begin, ret, <<>>, cnf, cnf)
    /\ UNCHANGED <<cnf, scen, peer, rc>>

CheckDuplicates ==
    /\ Alive
    /\ \E n \in Occupied(cnf) :
        \E ret \in Outcomes(cnf, check_duplicates(cnf, n)) :
            call' = Call("check_duplicates", n, 0, ret, <<>>, cnf, cnf)
    /\ UNCHANGED <<cnf, scen, peer, rc>>

\* the contact list and its resizing
Next ==
    \/ AddContact
    \/ DelContact
    \/ Realloc
    \/ Confirm

Spec == Init /\ [][Next]_vars

\* lookups in the contact lists that connecting, confirming and deleting build
InitLookup ==
    /\ \E me \in Mes : cnf = [me |-> me, cl |-> EmptyList]
    /\ call = NoCall
    /\ scen = ScenOff
    /\ peer = NoPeer
    /\ rc = RcIdle

NextLookup ==
    \/ AddContact
    \/ DelContact
    \/ Confirm
    \/ FindContact
    \/ CheckDuplicates

SpecLookup == InitLookup /\ [][NextLookup]_vars

(***************************************************************************)
(* Descriptors that are never reused: SpecOwn. The observer scen holds the *)
(* next descriptor to connect and the descriptors handed to close().       *)
(***************************************************************************)
\* the descriptors of the run: 1 .. MaxHandles, each added at most once
MaxHandles == INIT_CONTACTS + 2

InitOwn ==
    /\ cnf = [me |-> Identity(Onion(CH_a, CH_a), 10), cl |-> EmptyList]
    /\ call = NoCall
    /\ scen = [phase |-> "own", next |-> 1, closed |-> <<>>]
    /\ peer = NoPeer
    /\ rc = RcIdle

OwnAdd ==
    /\ Alive
    /\ scen.next <= MaxHandles
    /\ \E r \in {add_contact(cnf, scen.next)} :
        /\ cnf' = r.cnf
        /\ call' = Call("add_contact", scen.next, 0, r.ret, <<>>, cnf, r.cnf)
    /\ scen' = [scen EXCEPT !.next = @ + 1]
    /\ UNCHANGED <<peer, rc>>

OwnDel ==
    /\ Alive
    /\ \E n \in -1 .. cnf.cl.cl_size :
        \E r \in {del_contact(cnf, n)} :
            /\ cnf' = r.cnf
            /\ call' = Call("del_contact", n, 0, r.ret, r.closed, cnf, r.cnf)
            /\ scen' = [scen EXCEPT !.closed = @ \o r.closed]
    /\ UNCHANGED <<peer, rc>>

OwnRealloc ==
    /\ Alive
    /\ \E newsize \in -1 .. MaxSize :
        \E r \in {realloc_contactlist(cnf, newsize)} :
            /\ cnf' = r.cnf
            /\ call' = Call("realloc_contactlist", newsize, 0, r.ret, <<>>, cnf, r.cnf)
    /\ UNCHANGED <<scen, peer, rc>>

NextOwn ==
    \/ OwnAdd
    \/ OwnDel
    \/ OwnRealloc

SpecOwn == InitOwn /\ [][NextOwn]_vars

(***************************************************************************)
(* Sending the contact list: SpecSend.                                     *)
(***************************************************************************)
\* send_contacts that does not leave out the contact the list is sent to
RECURSIVE send_content_all(_, _, _)
send_content_all(c, n, i) ==
    IF i >= c.cl.cl_size THEN <<>>
    ELSE IF c.cl.contact[i].lport # 0
    THEN IF contact_to_string(c.cl.contact[i]) = NULL
         THEN send_content_all(c, n, i + 1)
         ELSE contact_to_string(c.cl.contact[i]) \o send_content_all(c, n, i + 1)
    ELSE send_content_all(c, n, i + 1)

\* the loop of send_contacts from slot i on: what it appends to pdu.content
RECURSIVE send_content(_, _, _)
send_content(c, n, i) ==
    IF i >= c.cl.cl_size THEN <<>>
    ELSE IF n = i THEN send_content(c, n, i + 1)
    ELSE IF c.cl.contact[i].lport # 0
    THEN IF contact_to_string(c.cl.contact[i]) = NULL
         THEN send_content(c, n, i + 1)
         ELSE contact_to_string(c.cl.contact[i]) \o send_content(c, n, i + 1)
    ELSE send_content(c, n, i + 1)

\* send_contacts(n): the PDU handed to write_pdu and the descriptor it is
\* written to, which is read behind the contact list when n is out of bounds
send_contacts(c, n) ==
    [content |-> send_content(c, n, 0),
     content_length |-> Len(send_content(c, n, 0)),
     fd |-> IF n \in Slots(c) THEN c.cl.contact[n].fd ELSE UB]

\* write_pdu(fd, &pdu): the bytes of content written, or -1
write_pdu(fd, pdu) == {-1, pdu.content_length}

SendContacts ==
    /\ Alive
    /\ \E n \in -1 .. cnf.cl.cl_size :
        \E pdu \in {send_contacts(cnf, n)} :
            \E ret \in write_pdu(pdu.fd, pdu) :
                call' = Call("send_contacts", n, pdu, ret, <<>>, cnf, cnf)
    /\ UNCHANGED <<cnf, scen, peer, rc>>

InitSend ==
    /\ cnf = [me |-> Identity(Onion(CH_a, CH_a), 10), cl |-> EmptyList]
    /\ call = NoCall
    /\ scen = ScenOff
    /\ peer = NoPeer
    /\ rc = RcIdle

NextSend ==
    \/ AddContact
    \/ DelContact
    \/ Confirm
    \/ SendContacts

SpecSend == InitSend /\ [][NextSend]_vars

(***************************************************************************)
(* Duplicates of any kind: SpecTie. A remote client may connect any number *)
(* of times, and state any identity in its "control/discover" PDU.         *)
(***************************************************************************)
\* a connection was dialed or accepted: its handler adds the descriptor, the
\* lowest one free, and sets the accepted flag of the new contact
connect_contact(c, accepted) ==
    {IF r.ret < 0 \/ r.ret >= r.cnf.cl.cl_size THEN r
     ELSE [r EXCEPT !.cnf.cl.contact[r.ret].accepted = accepted]
     : r \in {add_contact(c, fd) :
                fd \in {f \in Fds \ Held(c) : \A g \in Fds \ Held(c) : f <= g}}}

Connect ==
    /\ Alive
    /\ \E accepted \in BOOLEAN :
        \E r \in connect_contact(cnf, accepted) :
            /\ cnf' = r.cnf
            /\ call' = Call("connect", 0, 0, r.ret, <<>>, cnf, r.cnf)
    /\ UNCHANGED <<scen, peer, rc>>

\* the "control/discover" PDU of the contact in slot n states its identity
Discover ==
    /\ Alive
    /\ \E n \in Occupied(cnf), id \in {RemoteX, RemoteY} :
        /\ cnf.cl.contact[n].lport = 0
        /\ cnf' = [cnf EXCEPT !.cl.contact[n].onion_id = id.onion_id,
                              !.cl.contact[n].lport = id.lport]
        /\ call' = Call("discover", n, 0, 0, <<>>, cnf, cnf)
    /\ UNCHANGED <<scen, peer, rc>>

NextTie ==
    \/ Connect
    \/ Discover
    \/ CheckDuplicates

SpecTie == InitLookup /\ [][NextTie]_vars

(***************************************************************************)
(* Two clients, this one and RemoteX, and the two connections between      *)
(* them: SpecPeers. Descriptor 1 is, at either client, the connection it   *)
(* dialed, and descriptor 2 the one it accepted: a connection that is 1 at *)
(* one end is 2 at the other.                                              *)
(***************************************************************************)
OtherEnd(fd) == 3 - fd

\* the handler of the "control/discover" PDU that confirmed a slot deletes
\* victim, the duplicate that check_duplicates returned for the slot, if any
evict_duplicate(c, victim) ==
    IF victim = UB
    THEN [cnf |-> c, ret |-> UB, closed |-> <<>>]
    ELSE IF victim = -1
    THEN [cnf |-> c, ret |-> 0, closed |-> <<>>]
    ELSE del_contact(c, victim)

InitPeers ==
    /\ \E me \in Mes \ {RemoteX} : cnf = [me |-> me, cl |-> EmptyList]
    /\ peer = [me |-> RemoteX, cl |-> EmptyList]
    /\ call = NoCall
    /\ scen = ScenOff
    /\ rc = RcIdle

Evict ==
    /\ Alive
    /\ \E n \in Occupied(cnf) :
        /\ cnf.cl.contact[n].lport # 0
        /\ \E victim \in {check_duplicates(cnf, n)} :
             \E r \in {evict_duplicate(cnf, victim)} :
               /\ cnf' = r.cnf
               /\ call' = Call("evict", n, victim, r.ret, r.closed, cnf, r.cnf)
    /\ UNCHANGED <<scen, peer, rc>>

PeerAdd ==
    /\ Alive
    /\ \E fd \in {1, 2} \ Held(peer) :
        \E r \in {add_contact(peer, fd)} :
            /\ peer' = r.cnf
            /\ call' = Call("peer_add_contact", fd, 0, r.ret, <<>>, peer, r.cnf)
    /\ UNCHANGED <<cnf, scen, rc>>

\* the remote client's two connections are with this client
PeerConfirm ==
    /\ Alive
    /\ \E n \in Occupied(peer) :
        /\ peer.cl.contact[n].lport = 0
        /\ peer' = [peer EXCEPT
                      !.cl.contact[n].onion_id = cnf.me.onion_id,
                      !.cl.contact[n].lport = cnf.me.lport,
                      !.cl.contact[n].accepted = Link(peer.cl.contact[n].fd).accepted]
        /\ call' = Call("peer_confirm", n, 0, 0, <<>>, peer, peer)
    /\ UNCHANGED <<cnf, scen, rc>>

PeerEvict ==
    /\ Alive
    /\ \E n \in Occupied(peer) :
        /\ peer.cl.contact[n].lport # 0
        /\ \E victim \in {check_duplicates(peer, n)} :
             \E r \in {evict_duplicate(peer, victim)} :
               /\ peer' = r.cnf
               /\ call' = Call("peer_evict", n, victim, r.ret, r.closed, peer, r.cnf)
    /\ UNCHANGED <<cnf, scen, rc>>

NextPeers ==
    \/ AddContact
    \/ Confirm
    \/ Evict
    \/ PeerAdd
    \/ PeerConfirm
    \/ PeerEvict

SpecPeers == InitPeers /\ [][NextPeers]_vars

(***************************************************************************)
(* Receiving contacts: SpecRecv. A C index k of a string is position k + 1 *)
(* of the sequence.                                                        *)
(***************************************************************************)
\* the first position >= i of s that holds ch; Len(s) + 1 when none does
RECURSIVE find_char(_, _, _)
find_char(s, i, ch) ==
    IF i > Len(s) THEN Len(s) + 1
    ELSE IF s[i] = ch THEN i
    ELSE find_char(s, i + 1, ch)

\* the first position >= i of s that does not hold ch; Len(s) + 1 when none
RECURSIVE skip_char(_, _, _)
skip_char(s, i, ch) ==
    IF i > Len(s) THEN Len(s) + 1
    ELSE IF s[i] # ch THEN i
    ELSE skip_char(s, i + 1, ch)

\* the first position >= i of s that holds no decimal digit
RECURSIVE skip_digits(_, _)
skip_digits(s, i) ==
    IF i > Len(s) THEN Len(s) + 1
    ELSE IF s[i] < CH_0 \/ s[i] > CH_0 + 9 THEN i
    ELSE skip_digits(s, i + 1)

\* the number that the decimal digits s[i .. j - 1] write
RECURSIVE digits_value(_, _, _)
digits_value(s, i, j) ==
    IF j <= i THEN 0
    ELSE 10 * digits_value(s, i, j - 1) + (s[j - 1] - CH_0)

\* get_content_part(pdu, offset, '\n', &line): the index of the terminator at
\* or behind offset and the line up to and including it; -1 when the content
\* holds no terminator from offset on
get_content_part(content, offset) ==
    IF find_char(content, offset + 1, NL) > Len(content)
    THEN [ret |-> -1, line |-> <<>>]
    ELSE [ret |-> find_char(content, offset + 1, NL) - 1,
          line |-> SubSeq(content, offset + 1, find_char(content, offset + 1, NL))]

\* string_to_contact, from the start of the port token (position p, behind
\* the separator that ended the onion id): strtok_r(NULL, "\n"), strtol
string_to_contact_port(string, onion_id, p) ==
    IF skip_char(string, p, NL) > Len(string)
    THEN [ret |-> -1]                                \* missing listening port
    ELSE IF ~is_valid_onion(onion_id)
    THEN [ret |-> -1]
    ELSE [ret |-> 0,
          port |-> SubSeq(string, skip_char(string, p, NL),
                          find_char(string, skip_char(string, p, NL), NL) - 1)]

\* strtol(port, &ptr, 10) and the test ptr[0] != '\0' || !is_valid_port(lport):
\* leading blanks are skipped, the digits converted; no sign occurs in the
\* model's lines, and no number that a long does not hold
strtol_port(port) ==
    [lport |-> digits_value(port, skip_char(port, 1, SP),
                            skip_digits(port, skip_char(port, 1, SP))),
     rest |-> IF skip_digits(port, skip_char(port, 1, SP)) = skip_char(port, 1, SP)
              THEN 1
              ELSE skip_digits(port, skip_char(port, 1, SP))]

\* string_to_contact(&contact, string): ret, and the onion id and port stored
string_to_contact(string) ==
    IF skip_char(string, 1, SP) > Len(string)
    THEN [ret |-> -1]                                \* missing onion id
    ELSE CHOOSE res \in
           {IF t.ret = -1 THEN [ret |-> -1]
            ELSE CHOOSE res2 \in
                   {IF n.rest <= Len(t.port) \/ ~is_valid_port(n.lport)
                    THEN [ret |-> -1]
                    ELSE [ret |-> 0, lport |-> n.lport,
                          onion_id |-> SubSeq(string, skip_char(string, 1, SP),
                                              find_char(string, skip_char(string, 1, SP), SP) - 1)]
                    : n \in {strtol_port(t.port)}} : TRUE
            : t \in {string_to_contact_port(
                        string,
                        SubSeq(string, skip_char(string, 1, SP),
                               find_char(string, skip_char(string, 1, SP), SP) - 1),
                        find_char(string, skip_char(string, 1, SP), SP) + 1)}} : TRUE

\* handle_local_conn_request(onion_id, lport): it fails, or it succeeds and the
\* new contact is in the contact list (confirmed, dialed) when it returns, or
\* it succeeds and the contact is registered later
handle_local_conn_request(c, onion_id, lport) ==
    {[cnf |-> c, ret |-> -1], [cnf |-> c, ret |-> 0]}
    \cup {[cnf |-> [r.cnf EXCEPT !.cl.contact[r.ret].onion_id = onion_id,
                                 !.cl.contact[r.ret].lport = lport],
           ret |-> 0]
          : r \in {add_contact(c, fd) :
                     fd \in {f \in Fds \ Held(c) : \A g \in Fds \ Held(c) : f <= g}}}

\* the lines of the received PDUs: the three clients, a line without a
\* port, a line with port 0
SelfId == Identity(Onion(CH_a, CH_a), 10)

Lines ==
    {contact_to_string(RemoteX), contact_to_string(RemoteY),
     contact_to_string(SelfId),
     Onion(CH_a, CH_b) \o <<NL>>,
     Onion(CH_a, CH_b) \o <<SP, CH_0, NL>>}

\* the contents of at most k lines
RECURSIVE Contents(_)
Contents(k) ==
    IF k = 0 THEN {<<>>}
    ELSE Contents(k - 1) \cup {b \o l : b \in Contents(k - 1), l \in Lines}

\* a content may end in a line that was cut off
Bodies == Contents(MaxLines) \cup {b \o Onion(CH_b, CH_a) : b \in Contents(MaxLines - 1)}

\* the offsets at which the lines of content start
LineStarts(content) ==
    {o \in 0 .. (Len(content) - 1) : o = 0 \/ content[o] = NL}

InitRecv ==
    /\ cnf = [me |-> SelfId, cl |-> EmptyList]
    /\ call = NoCall
    /\ scen = ScenOff
    /\ peer = NoPeer
    /\ rc = RcIdle

\* the contact list of c holds a confirmed entry with this onion id and port
Listed(c, onion_id, lport) ==
    \E i \in Slots(c) :
        /\ c.cl.contact[i].lport # 0
        /\ c.cl.contact[i].onion_id = onion_id
        /\ c.cl.contact[i].lport = lport

\* what is recorded of a pass that parsed a contact: the offset of its line,
\* what find_contact returned, and whether the contact was this client or a
\* confirmed entry of the contact list when the line was parsed
Found(c, offset, contact, ret) ==
    [offset |-> offset, ret |-> ret,
     self |-> contact.onion_id = c.me.onion_id /\ contact.lport = c.me.lport,
     listed |-> Listed(c, contact.onion_id, contact.lport)]

\* receive_contacts(pdu) is called: its locals, and the observers decodes
\* (how often, at most 2 being counted, string_to_contact was given the line
\* extracted at an offset), finds (the calls of find_contact) and requests
\* (the connection requests made, and what they returned)
RecvStart ==
    /\ rc.pc \in {"idle", "done"}
    /\ \E content \in Bodies :
        rc' = [pc |-> "loop", content |-> content, line_begin |-> 0, line_end |-> 0,
               ret |-> 0, new_contacts |-> 0, known_contacts |-> 0,
               decodes |-> [o \in 0 .. (Len(content) - 1) |-> 0],
               finds |-> <<>>, requests |-> <<>>, result |-> 0]
    /\ UNCHANGED <<cnf, call, scen, peer>>

\* one pass of the while loop whose get_content_part fails: break
RecvBreak ==
    /\ rc.pc = "loop"
    /\ rc.line_end < Len(rc.content)
    /\ get_content_part(rc.content, rc.line_end).ret = -1
    /\ rc' = [rc EXCEPT !.line_begin = rc.line_end, !.line_end = -1, !.ret = -1,
                        !.pc = "done", !.result = -1]
    /\ UNCHANGED <<cnf, call, scen, peer>>

\* one pass whose string_to_contact fails: continue, line_end at the terminator
RecvSkip ==
    /\ rc.pc = "loop"
    /\ rc.line_end < Len(rc.content)
    /\ \E g \in {get_content_part(rc.content, rc.line_end)} :
        /\ g.ret # -1
        /\ string_to_contact(g.line).ret = -1
        /\ rc' = [rc EXCEPT !.line_begin = rc.line_end, !.line_end = g.ret,
                            !.ret = -1,
                            !.decodes[rc.line_end] = Min(@ + 1, 2)]
    /\ UNCHANGED <<cnf, call, scen, peer>>

\* one pass that parses a contact that find_contact does not find: a
\* connection request is made
RecvNew ==
    /\ rc.pc = "loop"
    /\ rc.line_end < Len(rc.content)
    /\ \E g \in {get_content_part(rc.content, rc.line_end)} :
        /\ g.ret # -1
        /\ \E contact \in {string_to_contact(g.line)} :
            /\ contact.ret = 0
            /\ find_contact(cnf, Identity(contact.onion_id, contact.lport), 0) = -2
            /\ \E h \in handle_local_conn_request(cnf, contact.onion_id, contact.lport) :
                /\ cnf' = h.cnf
                /\ rc' = [rc EXCEPT !.line_begin = rc.line_end, !.line_end = g.ret + 1,
                                    !.ret = IF h.ret = -1 THEN -1 ELSE @,
                                    !.new_contacts = @ + 1,
                                    !.decodes[rc.line_end] = Min(@ + 1, 2),
                                    !.finds = Append(@, Found(cnf, rc.line_end, contact, -2)),
                                    !.requests = Append(@, [onion_id |-> contact.onion_id,
                                                            lport |-> contact.lport,
                                                            offset |-> rc.line_end,
                                                            ret |-> h.ret])]
    /\ UNCHANGED <<call, scen, peer>>

\* one pass that parses a contact that find_contact reports as known
RecvKnown ==
    /\ rc.pc = "loop"
    /\ rc.line_end < Len(rc.content)
    /\ \E g \in {get_content_part(rc.content, rc.line_end)} :
        /\ g.ret # -1
        /\ \E contact \in {string_to_contact(g.line)} :
            /\ contact.ret = 0
            /\ find_contact(cnf, Identity(contact.onion_id, contact.lport), 0) # -2
            /\ rc' = [rc EXCEPT !.line_begin = rc.line_end, !.line_end = g.ret + 1,
                                !.known_contacts = @ + 1,
                                !.finds = Append(@, Found(cnf, rc.line_end, contact,
                                            find_contact(cnf, Identity(contact.onion_id,
                                                                       contact.lport), 0))),
                                !.decodes[rc.line_end] = Min(@ + 1, 2)]
    /\ UNCHANGED <<cnf, call, scen, peer>>

\* the loop ends: return ret != -1 ? new_contacts : -1
RecvReturn ==
    /\ rc.pc = "loop"
    /\ ~(rc.line_end < Len(rc.content))
    /\ rc' = [rc EXCEPT !.pc = "done",
                        !.result = IF rc.ret # -1 THEN rc.new_contacts ELSE -1]
    /\ UNCHANGED <<cnf, call, scen, peer>>

NextRecv ==
    \/ RecvStart
    \/ RecvBreak
    \/ RecvSkip
    \/ RecvNew
    \/ RecvKnown
    \/ RecvReturn

SpecRecv == InitRecv /\ [][NextRecv]_vars

(***************************************************************************)
(* The contact list: Spec.                                                 *)
(***************************************************************************)
\* C8: in every state that add_contact, del_contact and realloc_contactlist
\* calls, failing ones included, lead to, the list has at least one slot and
\* at least as many slots as contacts in use.
C8_StoreBounds ==
    /\ cnf.cl.cl_size >= 1
    /\ cnf.cl.cl_size >= cnf.cl.used_contacts

\* a resize below the number of contacts in use was refused on a full list
C8_Witness ==
    /\ call.op = "realloc_contactlist"
    /\ call.ret = -1
    /\ call.arg >= 1
    /\ cnf.cl.used_contacts = cnf.cl.cl_size

\* C9: used_contacts is the number of slots whose descriptor is not 0.
C9_CounterAccuracy ==
    cnf.cl.used_contacts = Cardinality(Occupied(cnf))

\* a deletion that shrank the list left the counter at the occupied slots
C9_Witness ==
    /\ call.op = "del_contact"
    /\ call.resized = -1
    /\ cnf.cl.used_contacts = INIT_CONTACTS

\* C6: realloc_contactlist(newsize) with newsize < 1 or newsize < used_contacts
\* returns -1 and leaves the size, the counter and every slot as they were.
C6_ResizeBounds ==
    [][(/\ call'.op = "realloc_contactlist"
        /\ (call'.arg < 1 \/ call'.arg < cnf.cl.used_contacts))
       => (call'.ret = -1 /\ cnf' = cnf)]_vars

\* a resize to at least one slot, but fewer than are in use, was refused
C6_Witness ==
    /\ call.op = "realloc_contactlist"
    /\ call.ret = -1
    /\ call.arg >= 1
    /\ call.arg < cnf.cl.used_contacts

\* C5 as claimed: realloc_contactlist(newsize) with newsize >= used_contacts
\* succeeds and keeps every contact, in order.
C5_AsClaimed ==
    [][(/\ call'.op = "realloc_contactlist"
        /\ call'.arg >= cnf.cl.used_contacts)
       => (/\ call'.ret = 0
           /\ OccupiedFrom(cnf', 0) = OccupiedFrom(cnf, 0))]_vars

\* C5, amended: realloc_contactlist(newsize) with newsize >= used_contacts and
\* newsize >= 1 returns 0, the list has newsize slots, and the occupied slots'
\* contents, read in ascending slot order, are those of before: every contact
\* is kept unchanged and in order, and no other slot is occupied.
C5_NoLossResize ==
    [][(/\ call'.op = "realloc_contactlist"
        /\ call'.arg >= cnf.cl.used_contacts
        /\ call'.arg >= 1)
       => (/\ call'.ret = 0
           /\ cnf'.cl.cl_size = call'.arg
           /\ cnf'.cl.used_contacts = cnf.cl.used_contacts
           /\ OccupiedFrom(cnf', 0) = OccupiedFrom(cnf, 0))]_vars

\* a resize succeeded on a list with contacts, a confirmed one at slot 1
\* behind them (slot 0 occupied too: the contacts were moved to the front)
C5_Witness ==
    /\ call.op = "realloc_contactlist"
    /\ call.ret = 0
    /\ cnf.cl.used_contacts >= 2
    /\ cnf.cl.cl_size > cnf.cl.used_contacts
    /\ cnf.cl.contact[1].lport # 0

\* C3 as claimed: del_contact(n) twice in a row on an index that was in
\* bounds returns 0 both times, and the second call leaves used_contacts alone.
C3_AsClaimed ==
    [][(/\ call.op = "del_contact"
        /\ call.ret = 0
        /\ call'.op = "del_contact"
        /\ call'.arg = call.arg)
       => (/\ call'.ret = 0
           /\ cnf'.cl.used_contacts = cnf.cl.used_contacts)]_vars

\* C3, amended: del_contact(n) twice in a row on an index that was in bounds,
\* the first call not having shrunk the list, returns 0 both times, and the
\* second call leaves used_contacts alone.
C3_IdempotentRemoval ==
    [][(/\ call.op = "del_contact"
        /\ call.ret = 0
        /\ call.resized = 0
        /\ call'.op = "del_contact"
        /\ call'.arg = call.arg)
       => (/\ call'.ret = 0
           /\ call'.closed = <<>>
           /\ cnf'.cl.used_contacts = cnf.cl.used_contacts)]_vars

\* the second of two del_contact calls on a slot that the first one cleared
\* returned 0 on a list that still holds contacts
C3_Witness ==
    /\ call.op = "del_contact"
    /\ call.rep
    /\ call.ret = 0
    /\ call.closed = <<>>
    /\ cnf.cl.used_contacts >= 1

\* C7: from the empty list of INIT_CONTACTS slots, INIT_CONTACTS + 1 calls of
\* add_contact grow the list once, to 2 * INIT_CONTACTS, on the last of them;
\* del_contact calls from there shrink it once, to INIT_CONTACTS, when
\* INIT_CONTACTS contacts are left, and never again down to no contact.
C7_Hysteresis ==
    /\ scen.phase = "add" =>
        /\ scen.shrinks = 0
        /\ scen.grows = (IF cnf.cl.used_contacts = INIT_CONTACTS + 1 THEN 1 ELSE 0)
        /\ cnf.cl.cl_size = (IF cnf.cl.used_contacts = INIT_CONTACTS + 1
                             THEN 2 * INIT_CONTACTS ELSE INIT_CONTACTS)
    /\ scen.phase = "del" =>
        /\ scen.grows = 1
        /\ scen.shrinks = (IF cnf.cl.used_contacts <= INIT_CONTACTS THEN 1 ELSE 0)
        /\ cnf.cl.cl_size = (IF cnf.cl.used_contacts <= INIT_CONTACTS
                             THEN INIT_CONTACTS ELSE 2 * INIT_CONTACTS)

\* all INIT_CONTACTS + 1 contacts were added and then deleted again
C7_Witness ==
    /\ scen.phase = "del"
    /\ scen.grows = 1
    /\ scen.shrinks = 1
    /\ cnf.cl.used_contacts = 0

(***************************************************************************)
(* Lookups: SpecLookup.                                                    *)
(***************************************************************************)
\* C4, for the start indexes the contact list has: find_contact called with
\* a contact whose string form is that of _cnf->me returns -1 (the contact
\* represents ourself) and never an index of the contact list.
C4_SelfMatch ==
    (/\ call.op = "find_contact"
     /\ call.ret # CRASH
     /\ call.arg2 \in Slots(cnf)
     /\ contact_strcmp(call.arg, cnf.me) = 0)
    => call.ret = -1

\* the pairs of slots i < j that hold the two confirmed entries of one remote
\* client, not this client, one accepted and one dialed
DupPairs(c) ==
    {p \in Slots(c) \X Slots(c) :
        /\ p[1] < p[2]
        /\ c.cl.contact[p[1]].lport # 0
        /\ c.cl.contact[p[2]].lport # 0
        /\ contact_strcmp(c.cl.contact[p[1]], c.cl.contact[p[2]]) = 0
        /\ c.cl.contact[p[1]].accepted # c.cl.contact[p[2]].accepted
        /\ contact_strcmp(c.cl.contact[p[1]], c.me) # 0
        /\ \A k \in Slots(c) \ {p[1], p[2]} :
              c.cl.contact[k].lport # 0
              => contact_strcmp(c.cl.contact[k], c.cl.contact[p[1]]) # 0}

\* the configuration with the contents of slots i and j exchanged
Swapped(c, i, j) ==
    [c EXCEPT !.cl.contact[i] = c.cl.contact[j],
              !.cl.contact[j] = c.cl.contact[i]]

\* C2: with two confirmed entries of the same address and port, one accepted
\* and one not, neither being this client, check_duplicates called on either
\* slot returns one of the two, and the accepted flag of the entry it returns
\* is the same when the two entries are exchanged.
C2_OrderIndependence ==
    \A p \in DupPairs(cnf) :
        LET sw == Swapped(cnf, p[1], p[2])
        IN  \A n \in {p[1], p[2]}, m \in {p[1], p[2]} :
                LET r == check_duplicates(cnf, n)
                    q == check_duplicates(sw, m)
                IN  /\ r \in {p[1], p[2]}
                    /\ q \in {p[1], p[2]}
                    /\ cnf.cl.contact[r].accepted = sw.cl.contact[q].accepted

\* check_duplicates was called on one of two duplicates, the accepted one in
\* the lower slot, and returned the dialed one in the higher slot
C2_Witness ==
    /\ call.op = "check_duplicates"
    /\ \E p \in DupPairs(cnf) :
        /\ call.arg \in {p[1], p[2]}
        /\ cnf.cl.contact[p[1]].accepted
        /\ call.ret = p[2]

(***************************************************************************)
(* Two clients: SpecPeers.                                                 *)
(***************************************************************************)
\* the slots of c that hold the confirmed ends of the two connections
\* between the clients
Ends(c) ==
    {n \in Slots(c) : c.cl.contact[n].fd \in {1, 2} /\ c.cl.contact[n].lport # 0}

BothEnds(c) == {c.cl.contact[n].fd : n \in Ends(c)} = {1, 2}

\* C1: when each of two clients with distinct identities holds the confirmed
\* entries of both connections between them (one dialed by each), then
\* check_duplicates, run at either client on either entry, returns an entry
\* of one and the same connection: what one client evicts is the other end
\* of what the other client evicts, and the other connection survives at both.
C1_CrossPeerAgreement ==
    (BothEnds(cnf) /\ BothEnds(peer)) =>
        \A n \in Ends(cnf), m \in Ends(peer) :
            LET r == check_duplicates(cnf, n)
                q == check_duplicates(peer, m)
            IN  /\ r \in Ends(cnf)
                /\ q \in Ends(peer)
                /\ cnf.cl.contact[r].fd = OtherEnd(peer.cl.contact[q].fd)

\* this client has evicted one of the two connections, the remote client
\* has then evicted its end of the same one, and each still holds the
\* confirmed entry of the other connection, its two ends
C1_Witness ==
    /\ call.op = "peer_evict"
    /\ call.closed # <<>>
    /\ Cardinality(Ends(cnf)) = 1
    /\ Cardinality(Ends(peer)) = 1
    /\ \E n \in Ends(cnf), m \in Ends(peer) :
        /\ cnf.cl.contact[n].fd = OtherEnd(peer.cl.contact[m].fd)
        /\ cnf.cl.contact[n].fd = call.closed[1]
        /\ check_duplicates(cnf, n) = -1
        /\ check_duplicates(peer, m) = -1

(***************************************************************************)
(* Claims on receive_contacts, under SpecRecv                              *)
(***************************************************************************)
\* the content consists of terminated lines only
Terminated(content) == content = <<>> \/ content[Len(content)] = NL

\* the line of content that starts at offset o
LineAt(content, o) == get_content_part(content, o).line

\* C10: when a line fails to decode, parsing continues with the next line:
\* string_to_contact is given the line at each offset at most once and only
\* at offsets where a line of the content starts, and when the call has
\* returned on a content of terminated lines, every line was decoded, every
\* well-formed contact that is still unknown has had its connection request,
\* and the call has returned -1 if some line was malformed.
C10_BestEffortLines ==
    rc.pc # "idle" =>
        /\ \A o \in DOMAIN rc.decodes :
            /\ rc.decodes[o] <= 1
            /\ rc.decodes[o] = 1 => o \in LineStarts(rc.content)
        /\ (rc.pc = "done" /\ Terminated(rc.content)) =>
            \A o \in LineStarts(rc.content) :
                /\ rc.decodes[o] = 1
                /\ string_to_contact(LineAt(rc.content, o)).ret = -1 => rc.result = -1
                /\ \A contact \in {string_to_contact(LineAt(rc.content, o))} :
                    (/\ contact.ret = 0
                     /\ find_contact(cnf, Identity(contact.onion_id, contact.lport), 0) = -2)
                    => \E q \in 1 .. Len(rc.requests) : rc.requests[q].offset = o

\* every line of the content parses
AllDecode(content) ==
    \A o \in LineStarts(content) : string_to_contact(LineAt(content, o)).ret = 0

\* the connection requests made for the line at offset o
RequestsAt(o) == {q \in 1 .. Len(rc.requests) : rc.requests[q].offset = o}

\* C11: when receive_contacts has returned on a content of terminated lines
\* that all parse, and every connection request succeeded, then find_contact
\* was called once for every line, in order; exactly one connection request,
\* with the line's onion id and port, was made for each line for which
\* find_contact returned -2, and none for any other line; lines giving this
\* client or a confirmed entry of the contact list got none; and the value
\* returned is the number of connection requests made.
C11_ReceiveAccounting ==
    (/\ rc.pc = "done"
     /\ Terminated(rc.content)
     /\ AllDecode(rc.content)
     /\ \A q \in 1 .. Len(rc.requests) : rc.requests[q].ret = 0)
    => /\ {rc.finds[k].offset : k \in 1 .. Len(rc.finds)} = LineStarts(rc.content)
       /\ Len(rc.finds) = Cardinality(LineStarts(rc.content))
       /\ \A k \in 1 .. Len(rc.finds) :
            LET f == rc.finds[k]
                contact == string_to_contact(LineAt(rc.content, f.offset))
            IN  /\ Cardinality(RequestsAt(f.offset)) = (IF f.ret = -2 THEN 1 ELSE 0)
                /\ (f.self \/ f.listed) <=> f.ret # -2
                /\ \A q \in RequestsAt(f.offset) :
                     /\ rc.requests[q].onion_id = contact.onion_id
                     /\ rc.requests[q].lport = contact.lport
       /\ rc.result = Len(rc.requests)
       /\ rc.new_contacts + rc.known_contacts = Len(rc.finds)

\* receive_contacts returned 1 for two lines, one of an unknown contact and
\* one of this client or of a contact in the list
C11_Witness ==
    /\ rc.pc = "done"
    /\ rc.result = 1
    /\ Len(rc.requests) = 1
    /\ rc.requests[1].ret = 0
    /\ Len(rc.finds) = 2
    /\ \E k \in 1 .. 2 : rc.finds[k].self \/ rc.finds[k].listed

(***************************************************************************)
(* Claims on send_contacts, under SpecSend                                 *)
(***************************************************************************)
\* the confirmed slots of c other than n
ConfirmedExcept(c, n) == {i \in Slots(c) : i # n /\ c.cl.contact[i].lport # 0}

\* the k-th smallest member of the set S of slots
KthSlot(S, k) == CHOOSE i \in S : Cardinality({j \in S : j < i}) = k - 1

\* the strings of the sequence lines, one after the other
RECURSIVE Concat(_)
Concat(lines) ==
    IF lines = <<>> THEN <<>> ELSE Head(lines) \o Concat(Tail(lines))

\* C12: the content of the PDU that send_contacts(n) builds is the string
\* forms of the confirmed slots other than n (lport # 0), one after the other
\* in ascending slot order, whatever n is; empty slots, slots whose contact
\* has not sent its listening port, and slot n contribute nothing; and the
\* content length is the length of that string, 0 when it is empty.
C12_DiscoveryContent ==
    call.op = "send_contacts" =>
        LET S == ConfirmedExcept(cnf, call.arg)
            body == Concat([k \in 1 .. Cardinality(S) |->
                               contact_to_string(cnf.cl.contact[KthSlot(S, k)])])
        IN  /\ call.arg2.content = body
            /\ call.arg2.content_length = Len(body)
            /\ \A i \in 1 .. Len(body) : body[i] # 0

\* the list was sent to a confirmed contact, a second confirmed contact and
\* one that has not confirmed being in the list: the content is one line
C12_Witness ==
    /\ call.op = "send_contacts"
    /\ call.arg \in Slots(cnf)
    /\ cnf.cl.contact[call.arg].lport # 0
    /\ Cardinality(ConfirmedExcept(cnf, call.arg)) = 1
    /\ \E i \in Occupied(cnf) : cnf.cl.contact[i].lport = 0
    /\ call.arg2.content_length = ONION_ADDRLEN + 4

(***************************************************************************)
(* Claims on check_duplicates, under SpecTie                               *)
(***************************************************************************)
\* the confirmed slots of c whose onion id and port are those of slot n
SameAs(c, n) ==
    {i \in Slots(c) : /\ c.cl.contact[i].lport # 0
                      /\ c.cl.contact[i].onion_id = c.cl.contact[n].onion_id
                      /\ c.cl.contact[i].lport = c.cl.contact[n].lport}

\* onion id a is behind onion id b in the order of the character codes
OnionGreater(a, b) ==
    \E i \in 1 .. Min(Len(a), Len(b)) :
        /\ a[i] > b[i]
        /\ \A j \in 1 .. (i - 1) : a[j] = b[j]

\* identity a (onion id, then port) compares greater than identity b
IdentityGreater(a, b) ==
    \/ OnionGreater(a.onion_id, b.onion_id)
    \/ a.onion_id = b.onion_id /\ a.lport > b.lport

\* slot n of c is confirmed, not this client, and one of exactly two
\* confirmed slots with its onion id and port
TwoOf(c, n) ==
    /\ n \in Slots(c)
    /\ c.cl.contact[n].lport # 0
    /\ n \in SameAs(c, n)
    /\ Cardinality(SameAs(c, n)) = 2
    /\ ~(c.cl.contact[n].onion_id = c.me.onion_id /\ c.cl.contact[n].lport = c.me.lport)

\* C13 as claimed: with two confirmed entries of the identity of slot n, not
\* this client's, check_duplicates(n) returns an entry with accepted = FALSE
\* when this client's identity compares greater than the remote one, and an
\* entry with accepted = TRUE when it compares lesser.
C13_AsClaimed ==
    (call.op = "check_duplicates" /\ TwoOf(cnf, call.arg)) =>
        /\ call.ret \in SameAs(cnf, call.arg)
        /\ IdentityGreater(cnf.me, cnf.cl.contact[call.arg])
           => ~cnf.cl.contact[call.ret].accepted
        /\ IdentityGreater(cnf.cl.contact[call.arg], cnf.me)
           => cnf.cl.contact[call.ret].accepted

\* C13, amended: with two confirmed entries of the identity of slot n, not
\* this client's, one of them accepted and the other dialed, check_duplicates(n)
\* returns the index of the dialed one (accepted = FALSE) when this client's
\* identity (onion id, then port) compares greater than the remote one, and
\* the index of the accepted one when it compares lesser.
C13_TieBreak ==
    (/\ call.op = "check_duplicates"
     /\ TwoOf(cnf, call.arg)
     /\ \E i, j \in SameAs(cnf, call.arg) :
          cnf.cl.contact[i].accepted /\ ~cnf.cl.contact[j].accepted) =>
        /\ call.ret \in SameAs(cnf, call.arg)
        /\ IdentityGreater(cnf.me, cnf.cl.contact[call.arg])
           => ~cnf.cl.contact[call.ret].accepted
        /\ IdentityGreater(cnf.cl.contact[call.arg], cnf.me)
           => cnf.cl.contact[call.ret].accepted

\* check_duplicates returned the dialed one of two duplicates, which is in
\* the lower slot, this client's onion id being that of the remote client and
\* its port the greater one
C13_Witness ==
    /\ call.op = "check_duplicates"
    /\ TwoOf(cnf, call.arg)
    /\ cnf.me.onion_id = cnf.cl.contact[call.arg].onion_id
    /\ cnf.me.lport > cnf.cl.contact[call.arg].lport
    /\ call.ret \in SameAs(cnf, call.arg)
    /\ ~cnf.cl.contact[call.ret].accepted
    /\ \E j \in SameAs(cnf, call.arg) : j > call.ret /\ cnf.cl.contact[j].accepted

\* slot n of c is confirmed and holds the onion id and port of this client
IsSelf(c, n) ==
    /\ n \in Slots(c)
    /\ c.cl.contact[n].lport # 0
    /\ c.cl.contact[n].onion_id = c.me.onion_id
    /\ c.cl.contact[n].lport = c.me.lport

\* C14: check_duplicates(n) on a confirmed slot that holds the onion id and
\* port of this client returns n, whatever else the contact list holds.
C14_SelfEviction ==
    (call.op = "check_duplicates" /\ IsSelf(cnf, call.arg)) => call.ret = call.arg

\* check_duplicates returned the slot it was called on, which holds this
\* client's identity, as do a lower slot and a higher slot
C14_Witness ==
    /\ call.op = "check_duplicates"
    /\ IsSelf(cnf, call.arg)
    /\ call.ret = call.arg
    /\ \E i, j \in Slots(cnf) :
        i < call.arg /\ call.arg < j /\ IsSelf(cnf, i) /\ IsSelf(cnf, j)

\* C21: with _cnf->me confirmed (valid onion id, lport # 0), check_duplicates
\* never reaches its final else (contact.c:272-275), whatever slot it is
\* called on: for a slot whose onion id and port are those of this client,
\* the first find_contact returns -1 and check_duplicates returns at
\* contact.c:218, before any comparison; for any other slot one of the
\* comparisons differs.
C21_FinalDefaultUnreachable ==
    (is_valid_onion(cnf.me.onion_id) /\ cnf.me.lport # 0) =>
        /\ \A n \in Slots(cnf) : check_duplicates_return(cnf, n) # 274
        /\ call.op = "check_duplicates" =>
             /\ check_duplicates_return(cnf, call.arg) # 274
             /\ (/\ cnf.cl.contact[call.arg].onion_id = cnf.me.onion_id
                 /\ cnf.cl.contact[call.arg].lport = cnf.me.lport)
                => (check_duplicates_return(cnf, call.arg) = 218 /\ call.ret = call.arg)

\* check_duplicates was called on the lower one of two confirmed slots that
\* hold this client's onion id and port, one accepted and one dialed, and
\* returned at contact.c:218
C21_Witness ==
    /\ call.op = "check_duplicates"
    /\ IsSelf(cnf, call.arg)
    /\ check_duplicates_return(cnf, call.arg) = 218
    /\ \E j \in Slots(cnf) :
        /\ j > call.arg
        /\ IsSelf(cnf, j)
        /\ cnf.cl.contact[j].accepted # cnf.cl.contact[call.arg].accepted
    /\ \A i \in Slots(cnf) : IsSelf(cnf, i) => i >= call.arg

(***************************************************************************)
(* Claims on find_contact, under SpecLookup                                *)
(***************************************************************************)
\* the confirmed slots of c from begin on that hold the contact's onion id
\* and port
Matches(c, contact, begin) ==
    {i \in Slots(c) : /\ i >= begin
                      /\ c.cl.contact[i].lport # 0
                      /\ c.cl.contact[i].onion_id = contact.onion_id
                      /\ c.cl.contact[i].lport = contact.lport}

\* C15: find_contact(contact, begin), for a contact that is not this client
\* (onion id or port differ): with begin out of bounds it returns -2; with
\* begin in bounds it returns the smallest index i >= begin of a confirmed
\* slot (lport # 0) with the contact's onion id and port, and -2 when there
\* is none; it never returns an empty or unconfirmed slot.
C15_FindScan ==
    (/\ call.op = "find_contact"
     /\ ~(call.arg.onion_id = cnf.me.onion_id /\ call.arg.lport = cnf.me.lport)) =>
        LET M == Matches(cnf, call.arg, call.arg2)
        IN  /\ call.arg2 \notin Slots(cnf) => call.ret = -2
            /\ (call.arg2 \in Slots(cnf) /\ M = {}) => call.ret = -2
            /\ (call.arg2 \in Slots(cnf) /\ M # {}) =>
                  /\ call.ret \in M
                  /\ \A i \in M : call.ret <= i
            /\ call.ret \in Slots(cnf) => cnf.cl.contact[call.ret].lport # 0

\* find_contact, started behind a slot that holds the contact, on a slot that
\* is occupied and not confirmed, returned the slot behind that one
C15_Witness ==
    /\ call.op = "find_contact"
    /\ ~(call.arg.onion_id = cnf.me.onion_id /\ call.arg.lport = cnf.me.lport)
    /\ call.arg2 = 1
    /\ call.ret = 2
    /\ 0 \in Matches(cnf, call.arg, 0)
    /\ cnf.cl.contact[1].fd # 0
    /\ cnf.cl.contact[1].lport = 0

(***************************************************************************)
(* Claims on the size of the contact list, under SpecSend                  *)
(***************************************************************************)
\* the smallest positive multiple of INIT_CONTACTS that is >= used
CapacityFor(used) ==
    IF used <= INIT_CONTACTS THEN INIT_CONTACTS
    ELSE INIT_CONTACTS * ((used + INIT_CONTACTS - 1) \div INIT_CONTACTS)

\* C20: from the empty list of INIT_CONTACTS slots, under add_contact and
\* del_contact calls only, cl_size is always the smallest positive multiple
\* of INIT_CONTACTS that is >= used_contacts; a del_contact that makes the
\* list smaller leaves it full; and at a full list, add_contact makes the
\* list larger and the del_contact of a contact right after that makes it
\* smaller again.
C20_CapacityTracksUsage ==
    /\ [](cnf.cl.cl_size = CapacityFor(cnf.cl.used_contacts))
    /\ [][(call'.op = "del_contact" /\ call'.resized = -1)
          => cnf'.cl.used_contacts = cnf'.cl.cl_size]_vars
    /\ [][(call'.op = "add_contact" /\ cnf.cl.used_contacts = cnf.cl.cl_size)
          => call'.resized = 1]_vars
    /\ [][(/\ call.op = "add_contact"
           /\ call.resized = 1
           /\ call'.op = "del_contact"
           /\ call'.closed # <<>>)
          => call'.resized = -1]_vars

\* the full list of INIT_CONTACTS contacts was made larger by add_contact:
\* one contact more than INIT_CONTACTS in twice as many slots
C20_Witness ==
    /\ call.op = "add_contact"
    /\ call.resized = 1
    /\ cnf.cl.used_contacts = INIT_CONTACTS + 1
    /\ cnf.cl.cl_size = 2 * INIT_CONTACTS
    /\ scen = ScenOff

(***************************************************************************)
(* More claims on the contact list, under Spec                             *)
(***************************************************************************)
\* the contacts of c in ascending slot order, without the one of descriptor fd
OthersThan(c, fd) == SelectSeq(OccupiedFrom(c, 0), LAMBDA e : e.fd # fd)

\* C16: del_contact(n) on an occupied slot in bounds returns 0, decrements
\* used_contacts by one and leaves the other contacts as they were, in content
\* and order; when the list is not resized they stay in their slots, slot n
\* is zeroed and the size is kept. del_contact(n) on an empty slot in bounds
\* returns 0 and changes nothing.
C16_RemoveFrame ==
    [][(/\ call'.op = "del_contact"
        /\ call'.arg \in Slots(cnf))
       => IF cnf.cl.contact[call'.arg].fd # 0
          THEN /\ call'.ret = 0
               /\ cnf'.cl.used_contacts = cnf.cl.used_contacts - 1
               /\ OccupiedFrom(cnf', 0) = OthersThan(cnf, cnf.cl.contact[call'.arg].fd)
               /\ Len(OccupiedFrom(cnf', 0)) = Len(OccupiedFrom(cnf, 0)) - 1
               /\ cnf'.me = cnf.me
               /\ call'.resized = 0 =>
                    /\ cnf'.cl.cl_size = cnf.cl.cl_size
                    /\ cnf'.cl.contact[call'.arg] = ZeroContact
                    /\ \A i \in Slots(cnf) \ {call'.arg} :
                         cnf'.cl.contact[i] = cnf.cl.contact[i]
          ELSE call'.ret = 0 /\ cnf' = cnf]_vars

\* the contact in slot 0 was deleted and the list shrank: the contacts left,
\* a confirmed one among them, moved to the front and fill the list
C16_Witness ==
    /\ call.op = "del_contact"
    /\ call.arg = 0
    /\ call.closed # <<>>
    /\ call.resized = -1
    /\ cnf.cl.used_contacts = cnf.cl.cl_size
    /\ cnf.cl.used_contacts >= 2
    /\ cnf.cl.contact[0].lport # 0

\* C19: add_contact(fd) leaves every contact in its slot and unchanged, also
\* when it makes the list larger first; it returns the lowest index that was
\* empty (the old size when the list was full), stores fd there, and occupies
\* no other slot.
C19_AddNoRelocation ==
    [][call'.op = "add_contact"
       => /\ \A i \in Occupied(cnf) : cnf'.cl.contact[i] = cnf.cl.contact[i]
          /\ call'.ret \in Slots(cnf')
          /\ call'.ret \notin Occupied(cnf)
          /\ \A j \in 0 .. (call'.ret - 1) : j \in Occupied(cnf)
          /\ cnf'.cl.contact[call'.ret].fd = call'.arg
          /\ Occupied(cnf') = Occupied(cnf) \cup {call'.ret}
          /\ cnf'.cl.cl_size >= cnf.cl.cl_size]_vars

\* add_contact made the full list larger and stored the descriptor in the
\* first of the new slots, behind the contacts, a confirmed one in slot 0
C19_Witness ==
    /\ call.op = "add_contact"
    /\ call.resized = 1
    /\ call.ret >= 2
    /\ call.ret = cnf.cl.cl_size - INIT_CONTACTS
    /\ cnf.cl.contact[call.ret].fd = call.arg
    /\ cnf.cl.contact[0].lport # 0

(***************************************************************************)
(* Claims on the descriptors, under SpecOwn                                *)
(***************************************************************************)
\* C17: with descriptors that are pairwise distinct and not 0, over any
\* sequence of add_contact, del_contact and realloc_contactlist calls: no
\* descriptor is handed to close() twice; a descriptor that was closed is in
\* no slot afterwards; and close() is called only by a del_contact, on the
\* descriptor that the slot it is called for holds.
C17_HandleOwnership ==
    /\ [](/\ \A i, j \in 1 .. Len(scen.closed) :
                scen.closed[i] = scen.closed[j] => i = j
          /\ \A i \in 1 .. Len(scen.closed) : scen.closed[i] \notin Held(cnf))
    /\ [][scen'.closed # scen.closed
          => /\ call'.op = "del_contact"
             /\ call'.arg \in Slots(cnf)
             /\ cnf.cl.contact[call'.arg].fd # 0
             /\ scen'.closed = Append(scen.closed, cnf.cl.contact[call'.arg].fd)]_vars

\* two descriptors were closed, one is still in the list, and the list was
\* resized after that
C17_Witness ==
    /\ scen.phase = "own"
    /\ Len(scen.closed) = 2
    /\ call.op = "realloc_contactlist"
    /\ call.ret = 0
    /\ call.resized # 0
    /\ Held(cnf) # {}

(***************************************************************************)
(* Termination of receive_contacts, under SpecRecv                         *)
(***************************************************************************)
\* C18: every pass of the loop of receive_contacts that does not leave the
\* loop advances line_end, also a pass whose line fails to parse, and
\* line_end never goes beyond the content length, so that the loop ends.
C18_OffsetAdvances ==
    [][(rc.pc = "loop" /\ rc'.pc = "loop")
       => (rc'.line_end > rc.line_end /\ rc'.line_end <= Len(rc.content))]_vars

====
